---- MODULE Spec2Model ----
(***************************************************************************)
(* Model of anydex.core.database.MarketDB, the sqlite persistence layer of *)
(* the market community (orders, reserved ticks, transactions, payments,   *)
(* ticks and the schema version marker).                                   *)
(*                                                                         *)
(* The database is seen from two sides:                                    *)
(*   db.conn  what the connection of MarketDB sees: the committed rows     *)
(*            plus the changes of its open, not yet committed transaction  *)
(*            (python's sqlite3 opens one implicitly before every          *)
(*            INSERT/UPDATE/DELETE);                                       *)
(*   db.disk  the committed rows, which is what any other reader sees and  *)
(*            what survives when uncommitted work is discarded.            *)
(* self.execute(...) acts on db.conn, self.commit() copies db.conn to      *)
(* db.disk.  A statement that raises (a primary-key violation) changes     *)
(* nothing and leaves the open transaction open.                           *)
(***************************************************************************)
EXTENDS Integers, Sequences, FiniteSets, TLC

\* database.py:20
LATEST_DB_VERSION == 5

\* Bounds of the model.
MaxQuantity == 1
MaxTimestamp == 2
MaxPayments == 2
MaxOrderNumber == 3

\* Python's None / an absent result (a record, so that it compares with rows
\* and entities).
None == [none |-> TRUE]

-----------------------------------------------------------------------------
(* Values *)

\* The trader that owns the store, and the order ids of its orders.
OrderIds == {<<"T1", 1>>, <<"T1", 2>>}

\* Order ids of counterparties, against which liquidity is reserved.
ReservedOrderIds == {<<"T2", 1>>, <<"T2", 2>>}

Quantities == 1..MaxQuantity

\* order.reserved_ticks: a dict from counterpart order id to quantity.
ReservedTickDicts ==
    UNION {[D -> Quantities] : D \in SUBSET ReservedOrderIds}

\* An Order as far as the store is concerned: its id, the columns written by
\* to_database() (is_ask stands for the twelve columns besides the key that
\* INSERT INTO orders writes once and no statement updates) and the
\* reservation dict.
Orders ==
    [order_id : OrderIds, is_ask : {TRUE}, reserved_ticks : ReservedTickDicts]

\* Orders of two traders kept in one store, without reservations.
NumberedOrderIds == {"T1", "T2"} \X (1..MaxOrderNumber)

NumberedOrders ==
    [order_id : NumberedOrderIds, is_ask : {TRUE}, reserved_ticks : {<<>>}]

\* Ticks: the key of the order they advertise and the quantity traded.
Ticks == [order_id : OrderIds, traded : {0, 1}]

\* The tables the schema creates; the first five hold the market's rows.
DataTables ==
    {"orders", "transactions", "payments", "ticks", "orders_reserved_ticks"}

TableNames == DataTables \cup {"option"}

TransactionIds == {"x1", "x2"}
PaymentIds == {"p1", "p2"}
Timestamps == 1..MaxTimestamp
PaymentTimes == {1, 2}

\* A Payment: its key (trader_id, payment_id, transaction_id) and timestamp;
\* the amount, type and the two addresses are written verbatim with them.
Payments ==
    [trader_id : {"T1"}, transaction_id : TransactionIds,
     payment_id : PaymentIds, timestamp : PaymentTimes]

\* The payment lists a transaction with this id can carry.
PaymentLists(id) ==
    UNION {[1..n -> {p \in Payments : p.transaction_id = id}] : n \in 0..MaxPayments}

\* One asset leg: the agreed amount and how much of it was transferred.
Amounts == {0, 1}

\* A Transaction: the five columns insert_or_update_transaction rewrites,
\* sent_wallet_info for the twelve columns it only ever inserts, and the
\* payment list.
Transaction(id, a1, t1, a2, t2, ts, info, payments) ==
    [transaction_id |-> id, asset1_amount |-> a1, asset1_transferred |-> t1,
     asset2_amount |-> a2, asset2_transferred |-> t2, timestamp |-> ts,
     sent_wallet_info |-> info, payments |-> payments]

\* Transactions of one id in every stage of settlement, without payments.
UpsertTransactions ==
    {t \in {Transaction("x1", a1, t1, a2, t2, ts, info, <<>>) :
               a1 \in Amounts, t1 \in Amounts, a2 \in Amounts, t2 \in Amounts,
               ts \in Timestamps, info \in BOOLEAN} :
        /\ t.asset1_transferred <= t.asset1_amount
        /\ t.asset2_transferred <= t.asset2_amount}

\* Transactions of one id with every payment list, in one stage.
PayTransactions ==
    {Transaction("x1", 1, 0, 1, 0, 1, FALSE, ps) : ps \in PaymentLists("x1")}

\* An order, with or without a reservation, and a transaction, with or
\* without a payment, each in two versions that share the primary key.
KeyedOrders ==
    [order_id : {<<"T1", 1>>}, is_ask : BOOLEAN,
     reserved_ticks : {<<>>, [k \in {<<"T2", 1>>} |-> 1]}]

KeyedTransactions ==
    {Transaction("x1", a, 0, 1, 0, 1, FALSE, ps) :
        a \in Amounts,
        ps \in {<<>>, <<[trader_id |-> "T1", transaction_id |-> "x1",
                         payment_id |-> "p1", timestamp |-> 1]>>}}

\* Updates of one transaction that differ in an amount, the timestamp and
\* the wallet flag, and that carry a payment list or none.
FramePayment ==
    [trader_id |-> "T1", transaction_id |-> "x1", payment_id |-> "p1",
     timestamp |-> 1]

FrameTransactions ==
    {Transaction("x1", a, 0, 1, 0, ts, info, ps) :
        a \in Amounts, ts \in Timestamps, info \in BOOLEAN,
        ps \in {<<>>, <<FramePayment>>}}

\* The updates of one transaction a sequence of calls is made of.
SequenceTransactions ==
    {t \in {Transaction("x1", a1, t1, 1, 0, ts, FALSE, <<>>) :
               a1 \in Amounts, t1 \in Amounts, ts \in Timestamps} :
        t.asset1_transferred <= t.asset1_amount}

\* One order, one transaction and one tick, for the operations taken
\* together.
SingleOrders == {o \in KeyedOrders : o.is_ask}

SingleTransactions == {t \in KeyedTransactions : t.asset1_amount = 1}

SingleTicks == {[order_id |-> <<"T1", 1>>, traded |-> 0]}

\* The tables right after the schema script ran on a fresh file.
EmptyTables ==
    [tables |-> TableNames,
     orders |-> {}, orders_reserved_ticks |-> {}, transactions |-> {},
     payments |-> {}, ticks |-> {},
     option |-> {[key |-> "database_version", value |-> ToString(LATEST_DB_VERSION)]}]

VARIABLES
    db,     \* [conn |-> tables seen by the connection, disk |-> committed tables]
    pc,     \* the call that is executing: [op |-> "idle"] between calls
    last    \* the last call that returned: op, arg, result, and db before it

vars == <<db, pc, last>>

Idle == [op |-> "idle"]

-----------------------------------------------------------------------------
(* Conversions done on the way to sqlite *)

\* str(order_id.order_number): the number is bound as text.
Str(n) == ToString(n)

\* A text value compared with or stored into an INTEGER column gets INTEGER
\* affinity: text that looks like an integer becomes that integer.
IntegerAffinity(s) ==
    IF \E n \in 0..9 : ToString(n) = s
    THEN CHOOSE n \in 0..9 : ToString(n) = s
    ELSE s

-----------------------------------------------------------------------------
(* sqlite primitives *)

\* self.commit()
commit(d) == [d EXCEPT !.disk = d.conn]

Ok(d) == [db |-> d, result |-> "ok"]
IntegrityError(d) == [db |-> d, result |-> "IntegrityError"]

OrderKey(r) == <<r.trader_id, r.order_number>>
ReservedKey(r) ==
    <<r.trader_id, r.order_number, r.reserved_trader_id, r.reserved_order_number>>

-----------------------------------------------------------------------------
(* Orders and reserved ticks *)

\* Order.to_database(): the row of the orders table.
OrderToDatabase(o) ==
    [trader_id |-> o.order_id[1], order_number |-> o.order_id[2],
     is_ask |-> o.is_ask]

\* The dict a list of (order id, quantity) pairs is loaded into.
DictOfPairs(pairs) ==
    [k \in {p[1] : p \in pairs} |-> (CHOOSE p \in pairs : p[1] = k)[2]]

\* Order.from_database(row, reserved_ticks)
OrderFromDatabase(row, reserved) ==
    [order_id |-> <<row.trader_id, row.order_number>>, is_ask |-> row.is_ask,
     reserved_ticks |-> DictOfPairs(reserved)]

\* MarketDB.get_reserved_ticks: the (order id, quantity) pairs of an order.
get_reserved_ticks(d, order_id) ==
    {<<<<r.reserved_trader_id, r.reserved_order_number>>, r.quantity>> :
        r \in {x \in d.conn.orders_reserved_ticks :
                  /\ x.trader_id = order_id[1]
                  /\ x.order_number = IntegerAffinity(Str(order_id[2]))}}

\* MarketDB.get_order
get_order(d, order_id) ==
    LET found == {r \in d.conn.orders :
                     /\ r.trader_id = order_id[1]
                     /\ r.order_number = IntegerAffinity(Str(order_id[2]))}
    IN IF found = {} THEN None
       ELSE OrderFromDatabase(CHOOSE r \in found : TRUE,
                              get_reserved_ticks(d, order_id))

\* The INSERT INTO orders of add_order, followed by its commit.
InsertOrder(d, o) ==
    LET row == OrderToDatabase(o)
    IN IF \E r \in d.conn.orders : OrderKey(r) = OrderKey(row)
       THEN IntegrityError(d)
       ELSE Ok(commit([d EXCEPT !.conn.orders = @ \cup {row}]))

\* MarketDB.add_reserved_tick
add_reserved_tick(d, order_id, reserved_order_id, amount) ==
    LET row == [trader_id |-> order_id[1],
                order_number |-> IntegerAffinity(Str(order_id[2])),
                reserved_trader_id |-> reserved_order_id[1],
                reserved_order_number |-> IntegerAffinity(Str(reserved_order_id[2])),
                quantity |-> amount]
    IN IF \E r \in d.conn.orders_reserved_ticks : ReservedKey(r) = ReservedKey(row)
       THEN IntegrityError(d)
       ELSE Ok(commit([d EXCEPT !.conn.orders_reserved_ticks = @ \cup {row}]))

\* delete_reserved_ticks without "AND order_number = ?".
delete_reserved_ticks_of_trader(d, order_id) ==
    [d EXCEPT !.conn.orders_reserved_ticks =
        {r \in @ : r.trader_id # order_id[1]}]

\* MarketDB.delete_reserved_ticks
delete_reserved_ticks(d, order_id) ==
    [d EXCEPT !.conn.orders_reserved_ticks =
        {r \in @ : ~(/\ r.trader_id = order_id[1]
                     /\ r.order_number = IntegerAffinity(Str(order_id[2])))}]

\* delete_order without the call of delete_reserved_ticks.
delete_order_row_only(d, order_id) ==
    [d EXCEPT !.conn.orders =
        {r \in @ : ~(/\ r.trader_id = order_id[1]
                     /\ r.order_number = IntegerAffinity(Str(order_id[2])))}]

\* MarketDB.delete_order
delete_order(d, order_id) ==
    delete_reserved_ticks(
        [d EXCEPT !.conn.orders =
            {r \in @ : ~(/\ r.trader_id = order_id[1]
                         /\ r.order_number = IntegerAffinity(Str(order_id[2])))}],
        order_id)

\* get_next_order_number that counts the rows instead of taking the maximum.
get_next_order_number_by_count(d) ==
    Cardinality(d.conn.orders) + 1

\* MarketDB.get_next_order_number: SELECT MAX(order_number) FROM orders is
\* NULL on an empty table, and "not highest_order_number[0]" is true of NULL
\* and of 0.
get_next_order_number(d) ==
    LET numbers == {r.order_number : r \in d.conn.orders}
    IN IF numbers = {} THEN 1
       ELSE LET highest == CHOOSE n \in numbers : \A m \in numbers : m <= n
            IN IF highest = 0 THEN 1 ELSE highest + 1

-----------------------------------------------------------------------------
(* Transactions and payments *)

PaymentKey(r) == <<r.trader_id, r.payment_id, r.transaction_id>>

\* Transaction.to_database(): the row of the transactions table.
TransactionToDatabase(t) ==
    [transaction_id |-> t.transaction_id,
     asset1_amount |-> t.asset1_amount,
     asset1_transferred |-> t.asset1_transferred,
     asset2_amount |-> t.asset2_amount,
     asset2_transferred |-> t.asset2_transferred,
     transaction_timestamp |-> t.timestamp,
     sent_wallet_info |-> t.sent_wallet_info]

\* Transaction.from_database(row, payments)
TransactionFromDatabase(row, payments) ==
    Transaction(row.transaction_id, row.asset1_amount, row.asset1_transferred,
                row.asset2_amount, row.asset2_transferred,
                row.transaction_timestamp, row.sent_wallet_info, payments)

\* Payment.to_database() and Payment.from_database(): the payments row has
\* the fields of the payment.
PaymentToDatabase(p) == p
PaymentFromDatabase(row) == row

\* The rows SELECT * FROM payments WHERE transaction_id = ? matches.
PaymentRows(d, transaction_id) ==
    {r \in d.conn.payments : r.transaction_id = transaction_id}

\* get_payments without the ORDER BY clause: the rows in any order.
get_payments_unordered(d, transaction_id) ==
    LET rows == PaymentRows(d, transaction_id)
        n == Cardinality(rows)
    IN {[i \in 1..n |-> PaymentFromDatabase(l[i])] :
          l \in {s \in [1..n -> rows] :
                    \A i, j \in 1..n : i # j => s[i] # s[j]}}

\* MarketDB.get_payments: the lists the query may return.  ORDER BY
\* timestamp ASC fixes the order of rows with different timestamps only.
get_payments(d, transaction_id) ==
    LET rows == PaymentRows(d, transaction_id)
        n == Cardinality(rows)
    IN {[i \in 1..n |-> PaymentFromDatabase(l[i])] :
          l \in {s \in [1..n -> rows] :
                    /\ \A i, j \in 1..n : i # j => s[i] # s[j]
                    /\ \A i, j \in 1..n : i < j => s[i].timestamp <= s[j].timestamp}}

\* MarketDB.get_transaction: the results it may return (None when absent).
get_transaction(d, transaction_id) ==
    LET found == {r \in d.conn.transactions : r.transaction_id = transaction_id}
    IN IF found = {} THEN {None}
       ELSE {TransactionFromDatabase(CHOOSE r \in found : TRUE, ps) :
                ps \in get_payments(d, transaction_id)}

\* MarketDB.delete_payments
delete_payments(d, transaction_id) ==
    [d EXCEPT !.conn.payments = {r \in @ : r.transaction_id # transaction_id}]

\* MarketDB.add_payment
add_payment(d, p) ==
    LET row == PaymentToDatabase(p)
    IN IF \E r \in d.conn.payments : PaymentKey(r) = PaymentKey(row)
       THEN IntegrityError(d)
       ELSE Ok(commit([d EXCEPT !.conn.payments = @ \cup {row}]))

\* InsertTransaction without the call of delete_payments.
InsertTransactionOnly(d, t) ==
    LET row == TransactionToDatabase(t)
    IN IF \E r \in d.conn.transactions : r.transaction_id = row.transaction_id
       THEN IntegrityError(d)
       ELSE Ok(commit([d EXCEPT !.conn.transactions = @ \cup {row}]))

\* add_transaction up to its loop: INSERT INTO transactions, commit, and
\* delete_payments.
InsertTransaction(d, t) ==
    LET row == TransactionToDatabase(t)
    IN IF \E r \in d.conn.transactions : r.transaction_id = row.transaction_id
       THEN IntegrityError(d)
       ELSE Ok(delete_payments(
                  commit([d EXCEPT !.conn.transactions = @ \cup {row}]),
                  t.transaction_id))

\* The INSERT OR IGNORE of insert_or_update_transaction.
InsertOrIgnore(d, t) ==
    LET row == TransactionToDatabase(t)
    IN IF \E r \in d.conn.transactions : r.transaction_id = row.transaction_id
       THEN d
       ELSE [d EXCEPT !.conn.transactions = @ \cup {row}]

\* An UPDATE that sets every column of the row.
OverwrittenWhole(r, t) == TransactionToDatabase(t)

\* The five columns the UPDATE of insert_or_update_transaction sets.
Overwritten(r, t) ==
    [r EXCEPT !.asset1_amount = t.asset1_amount,
              !.asset1_transferred = t.asset1_transferred,
              !.asset2_amount = t.asset2_amount,
              !.asset2_transferred = t.asset2_transferred,
              !.transaction_timestamp = t.timestamp]

\* UpdateIfNewer with "transaction_timestamp <= ?" for "<".
UpdateIfNotOlder(d, t) ==
    [d EXCEPT !.conn.transactions =
        {IF /\ r.transaction_id = t.transaction_id
            /\ r.transaction_timestamp <= t.timestamp
         THEN Overwritten(r, t) ELSE r : r \in @}]

\* UpdateIfNewer with the comparison turned round, "transaction_timestamp > ?".
UpdateIfOlder(d, t) ==
    [d EXCEPT !.conn.transactions =
        {IF /\ r.transaction_id = t.transaction_id
            /\ r.transaction_timestamp > t.timestamp
         THEN Overwritten(r, t) ELSE r : r \in @}]

\* UpdateIfNewer without "AND transaction_timestamp < ?".
UpdateAlways(d, t) ==
    [d EXCEPT !.conn.transactions =
        {IF r.transaction_id = t.transaction_id
         THEN Overwritten(r, t) ELSE r : r \in @}]

\* No UPDATE at all: INSERT OR IGNORE alone.
UpdateNever(d, t) == d

\* The UPDATE of insert_or_update_transaction.
UpdateIfNewer(d, t) ==
    [d EXCEPT !.conn.transactions =
        {IF /\ r.transaction_id = t.transaction_id
            /\ r.transaction_timestamp < t.timestamp
         THEN Overwritten(r, t)
         ELSE r : r \in @}]

\* insert_or_update_transaction with its commit() moved up, between the
\* INSERT OR IGNORE and the UPDATE.
insert_or_update_commit_early(d, t) ==
    UpdateIfNewer(commit(InsertOrIgnore(d, t)), t)

\* MarketDB.insert_or_update_transaction
insert_or_update_transaction(d, t) ==
    commit(UpdateIfNewer(InsertOrIgnore(d, t), t))

\* MarketDB.delete_transaction
delete_transaction(d, transaction_id) ==
    delete_payments(
        [d EXCEPT !.conn.transactions =
            {r \in @ : r.transaction_id # transaction_id}],
        transaction_id)

-----------------------------------------------------------------------------
(* Ticks *)

\* Tick.to_database(): the row of the ticks table.
TickToDatabase(tick) ==
    [trader_id |-> tick.order_id[1], order_number |-> tick.order_id[2],
     traded |-> tick.traded]

\* add_tick with INSERT OR REPLACE in place of INSERT.
add_tick_or_replace(d, tick) ==
    LET row == TickToDatabase(tick)
    IN Ok(commit([d EXCEPT !.conn.ticks =
                     {r \in @ : OrderKey(r) # OrderKey(row)} \cup {row}]))

\* MarketDB.add_tick
add_tick(d, tick) ==
    LET row == TickToDatabase(tick)
    IN IF \E r \in d.conn.ticks : OrderKey(r) = OrderKey(row)
       THEN IntegrityError(d)
       ELSE Ok(commit([d EXCEPT !.conn.ticks = @ \cup {row}]))

\* MarketDB.delete_all_ticks
delete_all_ticks(d) ==
    Ok([d EXCEPT !.conn.ticks = {}])

-----------------------------------------------------------------------------
(* Schema and version check *)

\* The value of the class attribute self.LATEST_DB_VERSION.
self_LATEST_DB_VERSION == LATEST_DB_VERSION

\* The schema script: CREATE TABLE IF NOT EXISTS for the six tables, then
\* INSERT OR REPLACE of the version marker.
schema ==
    <<[statement |-> "create", table |-> "orders"],
      [statement |-> "create", table |-> "transactions"],
      [statement |-> "create", table |-> "payments"],
      [statement |-> "create", table |-> "ticks"],
      [statement |-> "create", table |-> "orders_reserved_ticks"],
      [statement |-> "create", table |-> "option"],
      [statement |-> "replace", table |-> "option",
       row |-> [key |-> "database_version", value |-> Str(LATEST_DB_VERSION)]]>>

\* get_upgrade_script that knows the oldest version only.
get_upgrade_script_of_first_version(current_version) ==
    IF current_version = 1
    THEN <<[statement |-> "drop", table |-> "orders"],
           [statement |-> "drop", table |-> "transactions"],
           [statement |-> "drop", table |-> "payments"],
           [statement |-> "drop", table |-> "ticks"],
           [statement |-> "drop", table |-> "orders_reserved_ticks"],
           [statement |-> "drop", table |-> "option"],
           [statement |-> "drop", table |-> "traders"]>>
    ELSE <<>>

\* MarketDB.get_upgrade_script: seven DROP TABLE IF EXISTS statements for
\* the versions 1 to 4; None, here the empty script, for any other version.
get_upgrade_script(current_version) ==
    IF current_version = 1 \/ current_version = 2 \/ current_version = 3
          \/ current_version = 4
    THEN <<[statement |-> "drop", table |-> "orders"],
           [statement |-> "drop", table |-> "transactions"],
           [statement |-> "drop", table |-> "payments"],
           [statement |-> "drop", table |-> "ticks"],
           [statement |-> "drop", table |-> "orders_reserved_ticks"],
           [statement |-> "drop", table |-> "option"],
           [statement |-> "drop", table |-> "traders"]>>
    ELSE <<>>

\* One statement of a script on the tables of the database.
Statement(t, st) ==
    CASE st.statement = "create" ->
            [t EXCEPT !.tables = @ \cup {st.table}]
      [] st.statement = "drop" ->
            IF st.table \in TableNames
            THEN [t EXCEPT !.tables = @ \ {st.table}, ![st.table] = {}]
            ELSE [t EXCEPT !.tables = @ \ {st.table}]
      [] st.statement = "replace" ->
            [t EXCEPT ![st.table] =
                {r \in @ : r.key # st.row.key} \cup {st.row}]

RECURSIVE Statements(_, _)
Statements(t, script) ==
    IF script = <<>> THEN t
    ELSE Statements(Statement(t, Head(script)), Tail(script))

\* self.executescript(script): sqlite3 commits the open transaction, then
\* runs the statements one by one in autocommit mode.
executescript(d, script) ==
    LET t == Statements(commit(d).conn, script)
    IN [conn |-> t, disk |-> t]

\* bytes.isdigit() and int(bytes), for the texts of the model.
isdigit(text) == \E n \in 0..9 : ToString(n) = text
IsInteger(text) == \E n \in -9..9 : ToString(n) = text
int(text) == CHOOSE n \in -9..9 : ToString(n) = text

\* The version value check_database is called with: its python type and
\* its text.
VersionValues ==
    [type : {"bytes"}, text : {"0", "1", "2", "3", "4", "5", "6", "-1", "abc", ""}]
        \cup [type : {"str"}, text : {"2"}]

\* The assertions of check_database with the isdigit() one left out: int()
\* then raises ValueError on text that is no number.
check_database_asserts_without_isdigit(database_version) ==
    IF database_version.type # "bytes" THEN "AssertionError"
    ELSE IF ~IsInteger(database_version.text) THEN "ValueError"
    ELSE IF int(database_version.text) < 0 THEN "AssertionError"
    ELSE "ok"

\* The three assertions check_database starts with.
check_database_asserts(database_version) ==
    IF database_version.type # "bytes" THEN "AssertionError"
    ELSE IF ~isdigit(database_version.text) THEN "AssertionError"
    ELSE IF int(database_version.text) < 0 THEN "AssertionError"
    ELSE "ok"

\* The version read from the option table when the database is opened: the
\* value of the database_version row, "0" when there is none.
PersistedVersion(t) ==
    IF \E r \in t.option : r.key = "database_version"
    THEN (CHOOSE r \in t.option : r.key = "database_version").value
    ELSE "0"

\* What a database file holds before MarketDB opens it: nothing at all, or
\* the tables of some version of the schema with whatever rows were stored.
StoredTables ==
    {[tables |-> {}, orders |-> {}, orders_reserved_ticks |-> {},
      transactions |-> {}, payments |-> {}, ticks |-> {}, option |-> {}]}
    \cup
    {[tables |-> IF v < LATEST_DB_VERSION THEN TableNames \cup {"traders"}
                 ELSE TableNames,
      orders |-> {OrderToDatabase(o) : o \in os},
      orders_reserved_ticks |->
          {[trader_id |-> "T1", order_number |-> 1, reserved_trader_id |-> "T2",
            reserved_order_number |-> 1, quantity |-> q] : q \in qs},
      transactions |-> {TransactionToDatabase(t) : t \in ts},
      payments |-> {PaymentToDatabase(p) : p \in ps},
      ticks |-> {TickToDatabase(k) : k \in ks},
      option |-> {[key |-> "database_version", value |-> Str(v)]}] :
        v \in 1..LATEST_DB_VERSION,
        os \in SUBSET {[order_id |-> <<"T1", 1>>, is_ask |-> TRUE, reserved_ticks |-> <<>>]},
        qs \in SUBSET {1},
        ts \in SUBSET {Transaction("x1", 1, 0, 1, 0, 1, FALSE, <<>>)},
        ps \in SUBSET {[trader_id |-> "T1", transaction_id |-> "x1",
                        payment_id |-> "p1", timestamp |-> 1]},
        ks \in SUBSET {[order_id |-> <<"T1", 1>>, traded |-> 0]}}

-----------------------------------------------------------------------------
(* PaymentId *)

\* The python values PaymentId is constructed from: their type and text.
PaymentIdValues ==
    [type : {"str"}, text : {"", "p1", "p2"}]
        \cup {[type |-> "bytes", text |-> "p1"], [type |-> "int", text |-> "1"],
              [type |-> "NoneType", text |-> "None"]}

\* PaymentId.__init__: the object, or the exception raised.
PaymentId(payment_id) ==
    IF payment_id.type # "str"
    THEN [raised |-> "TypeError"]
    ELSE [payment_id |-> payment_id.text]

\* PaymentId.__str__
PaymentIdStr(self) == self.payment_id

-----------------------------------------------------------------------------
(* Calls *)

Returned(op, arg, result) ==
    [op |-> op, arg |-> arg, result |-> result, pre |-> db]

\* add_order(order), up to and including the commit of the order row.  The
\* loop over order.reserved_ticks follows in AddOrderReserve.
AddOrder(o) ==
    /\ pc = Idle
    /\ LET r == InsertOrder(db, o)
       IN /\ db' = r.db
          /\ IF r.result = "ok" /\ DOMAIN o.reserved_ticks # {}
             THEN /\ pc' = [op |-> "add_order", arg |-> o,
                            todo |-> DOMAIN o.reserved_ticks, pre |-> db]
                  /\ UNCHANGED last
             ELSE /\ pc' = Idle
                  /\ last' = Returned("add_order", o, r.result)

\* One iteration of the loop of add_order: add_reserved_tick for the next
\* entry of the dict (dicts iterate in whatever order they were filled).
AddOrderReserve ==
    /\ pc.op = "add_order"
    /\ \E k \in pc.todo :
        LET r == add_reserved_tick(db, pc.arg.order_id, k, pc.arg.reserved_ticks[k])
            done == r.result # "ok" \/ pc.todo = {k}
        IN /\ db' = r.db
           /\ IF done
              THEN /\ pc' = Idle
                   /\ last' = [op |-> "add_order", arg |-> pc.arg,
                               result |-> r.result, pre |-> pc.pre]
              ELSE /\ pc' = [pc EXCEPT !.todo = @ \ {k}]
                   /\ UNCHANGED last

DeleteOrder(order_id) ==
    /\ pc = Idle
    /\ db' = delete_order(db, order_id)
    /\ last' = Returned("delete_order", order_id, "ok")
    /\ UNCHANGED pc

AddReservedTick(order_id, reserved_order_id, amount) ==
    /\ pc = Idle
    /\ LET r == add_reserved_tick(db, order_id, reserved_order_id, amount)
       IN /\ db' = r.db
          /\ last' = Returned("add_reserved_tick",
                              <<order_id, reserved_order_id, amount>>, r.result)
    /\ UNCHANGED pc

DeleteReservedTicks(order_id) ==
    /\ pc = Idle
    /\ db' = delete_reserved_ticks(db, order_id)
    /\ last' = Returned("delete_reserved_ticks", order_id, "ok")
    /\ UNCHANGED pc

\* add_transaction(transaction), up to the loop over transaction.payments,
\* which follows in AddTransactionPayment.
AddTransaction(t) ==
    /\ pc = Idle
    /\ LET r == InsertTransaction(db, t)
       IN /\ db' = r.db
          /\ IF r.result = "ok" /\ Len(t.payments) > 0
             THEN /\ pc' = [op |-> "add_transaction", arg |-> t, todo |-> 1,
                            pre |-> db]
                  /\ UNCHANGED last
             ELSE /\ pc' = Idle
                  /\ last' = Returned("add_transaction", t, r.result)

\* One iteration of the loop of add_transaction: add_payment(payment).
AddTransactionPayment ==
    /\ pc.op = "add_transaction"
    /\ LET r == add_payment(db, pc.arg.payments[pc.todo])
           done == r.result # "ok" \/ pc.todo = Len(pc.arg.payments)
       IN /\ db' = r.db
          /\ IF done
             THEN /\ pc' = Idle
                  /\ last' = [op |-> "add_transaction", arg |-> pc.arg,
                              result |-> r.result, pre |-> pc.pre]
             ELSE /\ pc' = [pc EXCEPT !.todo = @ + 1]
                  /\ UNCHANGED last

InsertOrUpdateTransaction(t) ==
    /\ pc = Idle
    /\ db' = insert_or_update_transaction(db, t)
    /\ last' = Returned("insert_or_update_transaction", t, "ok")
    /\ UNCHANGED pc

DeleteTransaction(transaction_id) ==
    /\ pc = Idle
    /\ db' = delete_transaction(db, transaction_id)
    /\ last' = Returned("delete_transaction", transaction_id, "ok")
    /\ UNCHANGED pc

AddPayment(p) ==
    /\ pc = Idle
    /\ LET r == add_payment(db, p)
       IN /\ db' = r.db
          /\ last' = Returned("add_payment", p, r.result)
    /\ UNCHANGED pc

GetPayments(transaction_id) ==
    /\ pc = Idle
    /\ \E payments \in get_payments(db, transaction_id) :
          last' = Returned("get_payments", transaction_id, payments)
    /\ UNCHANGED <<db, pc>>

DeletePayments(transaction_id) ==
    /\ pc = Idle
    /\ db' = delete_payments(db, transaction_id)
    /\ last' = Returned("delete_payments", transaction_id, "ok")
    /\ UNCHANGED pc

GetNextOrderNumber ==
    /\ pc = Idle
    /\ last' = Returned("get_next_order_number", None, get_next_order_number(db))
    /\ UNCHANGED <<db, pc>>

\* check_database(database_version), up to the loop: the assertions, the
\* conversion to int and the comparison with self.LATEST_DB_VERSION.
CheckDatabase(database_version) ==
    /\ pc = Idle
    /\ LET raised == check_database_asserts(database_version)
       IN IF raised # "ok"
          THEN /\ last' = Returned("check_database", database_version,
                                   [raised |-> raised])
               /\ UNCHANGED <<db, pc>>
          ELSE IF int(database_version.text) < self_LATEST_DB_VERSION
          THEN /\ pc' = [op |-> "check_database", arg |-> database_version,
                         database_version |-> int(database_version.text),
                         pre |-> db]
               /\ UNCHANGED <<db, last>>
          ELSE /\ last' = Returned("check_database", database_version,
                                   [returned |-> LATEST_DB_VERSION])
               /\ UNCHANGED <<db, pc>>

\* One iteration of the while loop of check_database.
CheckDatabaseUpgrade ==
    /\ pc.op = "check_database"
    /\ pc.database_version < LATEST_DB_VERSION
    /\ LET upgrade_script == get_upgrade_script(pc.database_version)
       IN db' = IF upgrade_script # <<>> THEN executescript(db, upgrade_script)
                ELSE db
    /\ pc' = [pc EXCEPT !.database_version = @ + 1]
    /\ UNCHANGED last

\* The end of check_database: the schema script, the commit and the return.
CheckDatabaseSchema ==
    /\ pc.op = "check_database"
    /\ ~(pc.database_version < LATEST_DB_VERSION)
    /\ db' = commit(executescript(db, schema))
    /\ pc' = Idle
    /\ last' = [op |-> "check_database", arg |-> pc.arg,
                result |-> [returned |-> LATEST_DB_VERSION], pre |-> pc.pre]

AddTick(tick) ==
    /\ pc = Idle
    /\ LET r == add_tick(db, tick)
       IN /\ db' = r.db
          /\ last' = Returned("add_tick", tick, r.result)
    /\ UNCHANGED pc

DeleteAllTicks ==
    /\ pc = Idle
    /\ LET r == delete_all_ticks(db)
       IN /\ db' = r.db
          /\ last' = Returned("delete_all_ticks", None, r.result)
    /\ UNCHANGED pc

ConstructPaymentId(payment_id) ==
    /\ pc = Idle
    /\ last' = Returned("PaymentId", payment_id, PaymentId(payment_id))
    /\ UNCHANGED <<db, pc>>

\* add_payment of a payment of transaction x1 that carries the PaymentId
\* constructed last.
AddPaymentWithId(timestamp) ==
    /\ last.op = "PaymentId"
    /\ "payment_id" \in DOMAIN last.result
    /\ AddPayment([trader_id |-> "T1", transaction_id |-> "x1",
                   payment_id |-> PaymentIdStr(last.result),
                   timestamp |-> timestamp])

\* The calls of insert_or_update_transaction made so far in a sequence.
CallsSoFar == IF "calls" \in DOMAIN last THEN last.calls ELSE {}

\* insert_or_update_transaction(t) as one more call of a sequence.
InsertOrUpdateTransactionInSequence(t) ==
    /\ pc = Idle
    /\ db' = insert_or_update_transaction(db, t)
    /\ last' = [op |-> "insert_or_update_transaction", arg |-> t,
                result |-> "ok", pre |-> db, calls |-> CallsSoFar \cup {t}]
    /\ UNCHANGED pc

-----------------------------------------------------------------------------
(* Specifications *)

Init ==
    /\ db = [conn |-> EmptyTables, disk |-> EmptyTables]
    /\ pc = Idle
    /\ last = [op |-> "none", arg |-> None, result |-> "ok",
               pre |-> [conn |-> EmptyTables, disk |-> EmptyTables]]

\* The order operations.
NextOrder ==
    \/ \E o \in Orders : AddOrder(o)
    \/ AddOrderReserve
    \/ \E id \in OrderIds : DeleteOrder(id)
    \/ \E id \in OrderIds, rid \in ReservedOrderIds, q \in Quantities :
          AddReservedTick(id, rid, q)
    \/ \E id \in OrderIds : DeleteReservedTicks(id)

SpecOrder == Init /\ [][NextOrder]_vars

\* One transaction observed again and again, in every stage of settlement.
NextUpsert ==
    \/ \E t \in UpsertTransactions : InsertOrUpdateTransaction(t)
    \/ \E t \in UpsertTransactions : AddTransaction(t)
    \/ DeleteTransaction("x1")

SpecUpsert == Init /\ [][NextUpsert]_vars

\* Transactions with their payments.
NextPay ==
    \/ \E t \in PayTransactions : AddTransaction(t)
    \/ AddTransactionPayment
    \/ DeleteTransaction("x1")
    \/ \E p \in {q \in Payments : q.transaction_id = "x1"} : AddPayment(p)
    \/ DeletePayments("x1")

SpecPay == Init /\ [][NextPay]_vars

\* Orders with their reservations next to transactions with their payments:
\* two owners of each kind, one possible child each.
CascadeOrders ==
    {o \in Orders : DOMAIN o.reserved_ticks \subseteq {<<"T2", 1>>}}

CascadePayment(id) ==
    [trader_id |-> "T1", transaction_id |-> id, payment_id |-> "p1",
     timestamp |-> 1]

CascadeTransactions ==
    UNION {{Transaction(id, 1, 0, 1, 0, 1, FALSE, ps) :
               ps \in {<<>>, <<CascadePayment(id)>>}} : id \in TransactionIds}

NextCascade ==
    \/ \E o \in CascadeOrders : AddOrder(o)
    \/ AddOrderReserve
    \/ \E id \in OrderIds : DeleteOrder(id)
    \/ \E t \in CascadeTransactions : AddTransaction(t)
    \/ AddTransactionPayment
    \/ \E id \in TransactionIds : DeleteTransaction(id)

SpecCascade == Init /\ [][NextCascade]_vars

\* Payments of two transactions, added one by one or with a transaction, and
\* read back.
NextGetPay ==
    \/ \E p \in Payments : AddPayment(p)
    \/ \E t \in PayTransactions : AddTransaction(t)
    \/ AddTransactionPayment
    \/ DeletePayments("x1")
    \/ \E id \in TransactionIds : GetPayments(id)

SpecGetPay == Init /\ [][NextGetPay]_vars

\* The version check on the database files MarketDB may find.
InitVersion ==
    /\ db \in {[conn |-> t, disk |-> t] : t \in StoredTables}
    /\ pc = Idle
    /\ last = [op |-> "none", arg |-> None, result |-> "ok", pre |-> db]

NextVersion ==
    \/ \E v \in VersionValues : CheckDatabase(v)
    \/ CheckDatabaseUpgrade
    \/ CheckDatabaseSchema

SpecVersion == InitVersion /\ [][NextVersion]_vars

\* check_database is straight-line code around a bounded loop: once called
\* it keeps running.
SpecVersionFair ==
    SpecVersion /\ WF_vars(CheckDatabaseUpgrade \/ CheckDatabaseSchema)

\* The three operations that insert a row under a primary key of its own.
NextKeyed ==
    \/ \E o \in KeyedOrders : AddOrder(o)
    \/ AddOrderReserve
    \/ \E t \in KeyedTransactions : AddTransaction(t)
    \/ AddTransactionPayment
    \/ \E tick \in Ticks : AddTick(tick)
    \/ DeleteAllTicks

SpecKeyed == Init /\ [][NextKeyed]_vars

\* Upserts of a transaction next to the operations on its payments.
NextFrame ==
    \/ \E t \in FrameTransactions : InsertOrUpdateTransaction(t)
    \/ \E p \in {q \in Payments : q.transaction_id = "x1"} : AddPayment(p)
    \/ DeletePayments("x1")
    \/ DeleteTransaction("x1")

SpecFrame == Init /\ [][NextFrame]_vars

\* Payment ids from construction to the payments table.
NextPaymentId ==
    \/ \E v \in PaymentIdValues : ConstructPaymentId(v)
    \/ \E ts \in PaymentTimes : AddPaymentWithId(ts)
    \/ DeletePayments("x1")

SpecPaymentId == Init /\ [][NextPaymentId]_vars

\* Sequences of upserts of one transaction on a store that starts without it.
NextSequence ==
    \E t \in SequenceTransactions : InsertOrUpdateTransactionInSequence(t)

SpecSequence == Init /\ [][NextSequence]_vars

\* Every operation that writes, on one order, one transaction and one tick.
NextWrite ==
    \/ \E o \in SingleOrders : AddOrder(o)
    \/ AddOrderReserve
    \/ DeleteOrder(<<"T1", 1>>)
    \/ AddReservedTick(<<"T1", 1>>, <<"T2", 1>>, 1)
    \/ DeleteReservedTicks(<<"T1", 1>>)
    \/ \E t \in SingleTransactions : AddTransaction(t)
    \/ AddTransactionPayment
    \/ \E t \in SingleTransactions : InsertOrUpdateTransaction(t)
    \/ DeleteTransaction("x1")
    \/ AddPayment(FramePayment)
    \/ DeletePayments("x1")
    \/ \E tick \in SingleTicks : AddTick(tick)
    \/ DeleteAllTicks

SpecWrite == Init /\ [][NextWrite]_vars

\* The order number allocator next to orders of two traders.
NextNumber ==
    \/ \E o \in NumberedOrders : AddOrder(o)
    \/ \E id \in NumberedOrderIds : DeleteOrder(id)
    \/ GetNextOrderNumber

SpecNumber == Init /\ [][NextNumber]_vars

-----------------------------------------------------------------------------
(* Properties of insert_or_update_transaction, under SpecUpsert *)

\* The row of a transaction id in a table set, None when there is none.
TransactionRow(tables, id) ==
    IF \E r \in tables.transactions : r.transaction_id = id
    THEN CHOOSE r \in tables.transactions : r.transaction_id = id
    ELSE None

\* The five columns insert_or_update_transaction may rewrite.
Mutable(r) ==
    <<r.asset1_amount, r.asset1_transferred, r.asset2_amount,
      r.asset2_transferred, r.transaction_timestamp>>

MutableOf(t) ==
    <<t.asset1_amount, t.asset1_transferred, t.asset2_amount,
      t.asset2_transferred, t.timestamp>>

Upserted == pc = Idle /\ last.op = "insert_or_update_transaction"

\* The row of the upserted transaction before and after the last call.
RowBefore == TransactionRow(last.pre.conn, last.arg.transaction_id)
RowAfter == TransactionRow(db.conn, last.arg.transaction_id)

\* C1: insert_or_update_transaction(t) on a stored transaction with timestamp
\* T raises nothing and leaves the two amounts, the two transferred amounts
\* and the timestamp equal to t's when t.timestamp > T, and as they were
\* stored when t.timestamp <= T.
C1_OverwritesIffNewer ==
    (Upserted /\ RowBefore # None) =>
        /\ last.result = "ok"
        /\ RowAfter # None
        /\ IF last.arg.timestamp > RowBefore.transaction_timestamp
           THEN Mutable(RowAfter) = MutableOf(last.arg)
           ELSE Mutable(RowAfter) = Mutable(RowBefore)

\* A newer transaction replaced stored values that differ from its own.
C1_Witness ==
    /\ Upserted /\ RowBefore # None
    /\ last.arg.timestamp > RowBefore.transaction_timestamp
    /\ RowAfter.asset1_transferred # RowBefore.asset1_transferred
    /\ RowAfter.asset2_amount # RowBefore.asset2_amount

\* A call of add_transaction or insert_or_update_transaction that found the
\* row of its transaction and left one.
Updated ==
    /\ pc = Idle
    /\ last.op \in {"add_transaction", "insert_or_update_transaction"}
    /\ RowBefore # None
    /\ RowAfter # None

\* C5 as claimed: the stored transferred amounts of a transaction never
\* decrease from one update to the next while its row exists.
C5_TransferredNeverDecreases ==
    Updated =>
        /\ RowAfter.asset1_transferred >= RowBefore.asset1_transferred
        /\ RowAfter.asset2_transferred >= RowBefore.asset2_transferred

\* C5 amended: the stored transferred amounts of a transaction never decrease
\* in an update that does not carry a timestamp strictly newer than the
\* stored one.
C5_TransferredDecreasesOnlyIfNewer ==
    (Updated /\ last.arg.timestamp <= RowBefore.transaction_timestamp) =>
        /\ RowAfter.asset1_transferred >= RowBefore.asset1_transferred
        /\ RowAfter.asset2_transferred >= RowBefore.asset2_transferred

\* An update with lower transferred amounts and no newer timestamp was made
\* and the stored amounts stayed.
C5_Witness ==
    /\ Updated /\ last.op = "insert_or_update_transaction"
    /\ last.arg.timestamp <= RowBefore.transaction_timestamp
    /\ last.arg.asset1_transferred < RowBefore.asset1_transferred
    /\ last.arg.asset2_transferred < RowBefore.asset2_transferred
    /\ RowAfter.asset1_transferred = RowBefore.asset1_transferred

\* Two calls of insert_or_update_transaction in a row, with t1 == last.arg
\* and then t2 == last'.arg, for the same id and with different timestamps.
TwoUpserts ==
    /\ Upserted /\ Upserted'
    /\ last' # last
    /\ last'.pre = db
    /\ last'.arg.transaction_id = last.arg.transaction_id
    /\ last'.arg.timestamp # last.arg.timestamp

\* The row t2 then t1 leave, from the state t1 then t2 started in.
OppositeOrder ==
    TransactionRow(
        insert_or_update_transaction(
            insert_or_update_transaction(last.pre, last'.arg), last.arg).conn,
        last.arg.transaction_id)

\* C6 as claimed: t1 then t2 leave exactly the row that t2 then t1 leave.
C6_SameRowInEitherOrder ==
    [][TwoUpserts =>
        TransactionRow(db'.conn, last.arg.transaction_id) = OppositeOrder]_vars

\* C6 amended: t1 then t2 leave the same two amounts, two transferred amounts
\* and timestamp as t2 then t1.
C6_SameMutableColumnsInEitherOrder ==
    [][TwoUpserts =>
        Mutable(TransactionRow(db'.conn, last.arg.transaction_id))
            = Mutable(OppositeOrder)]_vars

\* The second of two upserts of one id with different timestamps has run, on
\* a row the first one inserted, and overwrote it.
C6_Witness ==
    /\ Upserted /\ RowBefore # None
    /\ last.pre.conn = last.pre.disk
    /\ last.arg.timestamp > RowBefore.transaction_timestamp
    /\ last.arg.sent_wallet_info # RowBefore.sent_wallet_info
    /\ Mutable(RowAfter) # Mutable(RowBefore)

\* C7: a second insert_or_update_transaction with the transaction of the
\* call that just returned changes nothing, committed or not.
C7_Idempotent ==
    Upserted => insert_or_update_transaction(db, last.arg) = db

\* The first call did change the store.
C7_Witness ==
    /\ Upserted /\ RowBefore # None
    /\ db.conn # last.pre.conn
    /\ insert_or_update_transaction(db, last.arg) = db

-----------------------------------------------------------------------------
(* Properties of add_order, add_transaction and delete_order *)

\* The rows add_order(o) and add_transaction(t) write for the children.
ReservedRowsOf(o) ==
    {[trader_id |-> o.order_id[1], order_number |-> o.order_id[2],
      reserved_trader_id |-> k[1], reserved_order_number |-> k[2],
      quantity |-> o.reserved_ticks[k]] : k \in DOMAIN o.reserved_ticks}

PaymentRowsOf(t) ==
    {PaymentToDatabase(t.payments[i]) : i \in 1..Len(t.payments)}

\* The rows of an order id and of a transaction id in a table set.
OrderRowsIn(tables, order_id) ==
    {r \in tables.orders : OrderKey(r) = order_id}

ReservedRowsIn(tables, order_id) ==
    {r \in tables.orders_reserved_ticks :
        <<r.trader_id, r.order_number>> = order_id}

TransactionRowsIn(tables, id) ==
    {r \in tables.transactions : r.transaction_id = id}

PaymentRowsIn(tables, id) ==
    {r \in tables.payments : r.transaction_id = id}

\* add_order or add_transaction returned with an error raised after its
\* first INSERT had gone through.
FailedAfterFirstInsert ==
    /\ pc = Idle
    /\ last.result = "IntegrityError"
    /\ \/ /\ last.op = "add_order"
          /\ OrderRowsIn(last.pre.conn, last.arg.order_id) = {}
       \/ /\ last.op = "add_transaction"
          /\ TransactionRowsIn(last.pre.conn, last.arg.transaction_id) = {}

\* C2: when add_order or add_transaction fails after its first row insert,
\* the committed state is the committed state from before the call.
C2_FailureRollsBack ==
    FailedAfterFirstInsert => db.disk = last.pre.disk

\* C3: while add_order(o) or add_transaction(t) executes, the committed state
\* holds none of the rows of the call, or the owner row with all its
\* children.
C3_NoPartialApplicationVisible ==
    /\ pc.op = "add_order" =>
          \/ /\ OrderRowsIn(db.disk, pc.arg.order_id) = {}
             /\ ReservedRowsIn(db.disk, pc.arg.order_id)
                   \cap ReservedRowsOf(pc.arg) = {}
          \/ /\ OrderRowsIn(db.disk, pc.arg.order_id) # {}
             /\ ReservedRowsOf(pc.arg)
                   \subseteq ReservedRowsIn(db.disk, pc.arg.order_id)
    /\ pc.op = "add_transaction" =>
          \/ /\ TransactionRowsIn(db.disk, pc.arg.transaction_id) = {}
             /\ PaymentRowsIn(db.disk, pc.arg.transaction_id)
                   \cap PaymentRowsOf(pc.arg) = {}
          \/ /\ TransactionRowsIn(db.disk, pc.arg.transaction_id) # {}
             /\ PaymentRowsOf(pc.arg)
                   \subseteq PaymentRowsIn(db.disk, pc.arg.transaction_id)

\* C8: after add_order(o) for an id without order row, the reservations
\* stored under o.order_id are exactly the entries of o.reserved_ticks, and
\* get_order(o.order_id) is o.
C8_AddThenGetReturnsOrder ==
    (/\ pc = Idle /\ last.op = "add_order" /\ last.result = "ok"
     /\ get_order(last.pre, last.arg.order_id) = None)
        => /\ get_reserved_ticks(db, last.arg.order_id)
                = {<<k, last.arg.reserved_ticks[k]>> :
                      k \in DOMAIN last.arg.reserved_ticks}
           /\ get_order(db, last.arg.order_id) = last.arg

\* delete_order(id) returned for an id that had no order row.
DeletedAbsentOrder ==
    /\ pc = Idle
    /\ last.op = "delete_order"
    /\ get_order(last.pre, last.arg) = None

\* C10 as claimed: delete_order of an id without order row raises nothing
\* and leaves every table as it was.
C10_DeleteAbsentOrderChangesNothing ==
    DeletedAbsentOrder => last.result = "ok" /\ db = last.pre

\* C10 amended: delete_order of an id without order row raises nothing,
\* leaves orders, transactions, payments, ticks and the version marker as
\* they were, takes from orders_reserved_ticks exactly the rows stored under
\* that id, and commits nothing.
C10_DeleteAbsentOrderRemovesOnlyItsReservations ==
    DeletedAbsentOrder =>
        /\ last.result = "ok"
        /\ db.disk = last.pre.disk
        /\ db.conn = [last.pre.conn EXCEPT !.orders_reserved_ticks =
                          @ \ ReservedRowsIn(last.pre.conn, last.arg)]

\* delete_order ran on an id that had reservation rows but no order row,
\* while another order and its reservations were stored.
C10_Witness ==
    /\ DeletedAbsentOrder
    /\ ReservedRowsIn(last.pre.conn, last.arg) # {}
    /\ ReservedRowsIn(db.conn, last.arg) = {}
    /\ db.conn.orders_reserved_ticks # {}
    /\ db.conn.orders # {}

-----------------------------------------------------------------------------
(* Properties of the child rows, under SpecPay and SpecCascade *)

\* C4: after a successful add_transaction(t) the payment rows stored under
\* t.transaction_id are exactly the payments attached to t.
C4_PaymentsReplacedAsASet ==
    (pc = Idle /\ last.op = "add_transaction" /\ last.result = "ok") =>
        PaymentRows(db, last.arg.transaction_id) = PaymentRowsOf(last.arg)

\* add_transaction(t) succeeded on a store that held a payment under t's id
\* which t does not carry, and t carries payments of its own.
C4_Witness ==
    /\ pc = Idle /\ last.op = "add_transaction" /\ last.result = "ok"
    /\ PaymentRows(last.pre, last.arg.transaction_id) \ PaymentRowsOf(last.arg) # {}
    /\ Len(last.arg.payments) = 2
    /\ PaymentRows(db, last.arg.transaction_id) # {}

\* The rows of the other orders, with their reservations, in a table set.
OtherOrders(tables, order_id) ==
    <<{r \in tables.orders : OrderKey(r) # order_id},
      {r \in tables.orders_reserved_ticks :
          <<r.trader_id, r.order_number>> # order_id}>>

\* The rows of the other transactions, with their payments, in a table set.
OtherTransactions(tables, id) ==
    <<{r \in tables.transactions : r.transaction_id # id},
      {r \in tables.payments : r.transaction_id # id}>>

\* C9: after delete_order(id), get_order(id) is absent and
\* get_reserved_ticks(id) is empty; after delete_transaction(id),
\* get_transaction(id) is absent and get_payments(id) is empty; and either
\* leaves the rows of every other order and transaction as they were.
C9_DeleteCascades ==
    /\ (pc = Idle /\ last.op = "delete_order") =>
          /\ get_order(db, last.arg) = None
          /\ get_reserved_ticks(db, last.arg) = {}
          /\ OtherOrders(db.conn, last.arg) = OtherOrders(last.pre.conn, last.arg)
          /\ db.conn.transactions = last.pre.conn.transactions
          /\ db.conn.payments = last.pre.conn.payments
    /\ (pc = Idle /\ last.op = "delete_transaction") =>
          /\ get_transaction(db, last.arg) = {None}
          /\ get_payments(db, last.arg) = {<<>>}
          /\ OtherTransactions(db.conn, last.arg)
                = OtherTransactions(last.pre.conn, last.arg)
          /\ db.conn.orders = last.pre.conn.orders
          /\ db.conn.orders_reserved_ticks = last.pre.conn.orders_reserved_ticks

\* delete_order removed an order with a reservation while another order with
\* a reservation and a transaction with a payment were stored.
C9_Witness ==
    /\ pc = Idle /\ last.op = "delete_order"
    /\ get_order(last.pre, last.arg) # None
    /\ get_reserved_ticks(last.pre, last.arg) # {}
    /\ OtherOrders(db.conn, last.arg)[1] # {}
    /\ OtherOrders(db.conn, last.arg)[2] # {}
    /\ db.conn.transactions # {}
    /\ db.conn.payments # {}

-----------------------------------------------------------------------------
(* Properties of get_next_order_number, under SpecNumber *)

GotNumber == pc = Idle /\ last.op = "get_next_order_number"

\* C11: get_next_order_number() returns 1 when there is no order row and
\* otherwise one more than the largest order_number of the order rows of all
\* traders, and leaves the store as it was.
C11_NextOrderNumber ==
    GotNumber =>
        /\ db = last.pre
        /\ db.conn.orders = {} => last.result = 1
        /\ db.conn.orders # {} =>
              /\ \A r \in db.conn.orders : r.order_number < last.result
              /\ \E r \in db.conn.orders : r.order_number + 1 = last.result

\* The number after orders 3 and 2 of one trader and 1 of the other is 4.
C11_Witness ==
    /\ GotNumber
    /\ {OrderKey(r) : r \in db.conn.orders} = {<<"T1", 3>>, <<"T2", 1>>, <<"T1", 2>>}
    /\ last.result = 4

-----------------------------------------------------------------------------
(* Properties of get_payments, under SpecGetPay *)

GotPayments == pc = Idle /\ last.op = "get_payments"

\* C12: get_payments(id) returns exactly the payment rows stored under that
\* transaction id, each once, in ascending order of timestamp, whatever the
\* order in which they were inserted.
C12_PaymentsOfIdByTimestamp ==
    GotPayments =>
        LET payments == last.result
            stored == {PaymentFromDatabase(r) :
                          r \in {q \in db.conn.payments : q.transaction_id = last.arg}}
        IN /\ {payments[i] : i \in 1..Len(payments)} = stored
           /\ Len(payments) = Cardinality(stored)
           /\ \A i, j \in 1..Len(payments) :
                 i < j => payments[i].timestamp <= payments[j].timestamp

\* Two payments of x1 come back, the one with the larger payment id first
\* because its timestamp is the smaller, and a payment of x2 is left out.
C12_Witness ==
    /\ GotPayments
    /\ last.arg = "x1"
    /\ Len(last.result) = 2
    /\ last.result[1].payment_id = "p2" /\ last.result[1].timestamp = 1
    /\ last.result[2].payment_id = "p1" /\ last.result[2].timestamp = 2
    /\ \E r \in db.conn.payments : r.transaction_id = "x2"

-----------------------------------------------------------------------------
(* Properties of check_database, under SpecVersion and SpecVersionFair *)

CheckedDatabase == pc = Idle /\ last.op = "check_database"

\* A version from 1 up to, not including, the latest one.
LegacyVersion(v) ==
    v.type = "bytes" /\ v.text \in {ToString(n) : n \in 1..(LATEST_DB_VERSION - 1)}

\* The five tables exist and hold no row, and the marker is the latest
\* version, for the connection and on disk.
UpgradedAndEmpty(t) ==
    /\ DataTables \subseteq t.tables
    /\ \A name \in DataTables : t[name] = {}
    /\ "option" \in t.tables
    /\ {r.value : r \in {q \in t.option : q.key = "database_version"}}
           = {ToString(LATEST_DB_VERSION)}

UpgradeFromLegacyDone ==
    (CheckedDatabase /\ LegacyVersion(last.arg)) =>
        /\ last.result = [returned |-> LATEST_DB_VERSION]
        /\ UpgradedAndEmpty(db.conn)
        /\ UpgradedAndEmpty(db.disk)

\* C13: for every starting version v with 1 <= v < LATEST_DB_VERSION and any
\* rows stored before, check_database(v) terminates, returns
\* LATEST_DB_VERSION, leaves the five tables existing and empty and leaves
\* the persisted database_version marker equal to LATEST_DB_VERSION.
C13_UpgradeFromLegacy ==
    /\ []UpgradeFromLegacyDone
    /\ (pc.op = "check_database" /\ LegacyVersion(pc.arg)) ~> CheckedDatabase

\* A store of version 2 that held a row in each of the five tables has been
\* checked with version 2.
C13_Witness ==
    /\ CheckedDatabase
    /\ last.arg = [type |-> "bytes", text |-> "2"]
    /\ PersistedVersion(last.pre.disk) = "2"
    /\ \A name \in DataTables : last.pre.disk[name] # {}
    /\ UpgradedAndEmpty(db.disk)

\* C14: check_database called with a version value that is not a number or
\* is negative fails an assertion before any upgrade script or schema
\* statement runs: the store is unchanged.
C14_BadVersionFailsFirst ==
    (pc = Idle /\ last.op = "check_database"
        /\ last.arg.text \in {"abc", "", "-1"}) =>
        /\ last.result = [raised |-> "AssertionError"]
        /\ db = last.pre

\* The text "abc" was refused on a store of version 2 with rows.
C14_Witness ==
    /\ CheckedDatabase
    /\ last.arg = [type |-> "bytes", text |-> "abc"]
    /\ last.result = [raised |-> "AssertionError"]
    /\ PersistedVersion(db.disk) = "2"
    /\ db.disk.orders # {}

\* C18: while and after check_database runs, called with the version that
\* is persisted (0 when there is none), the persisted database_version
\* marker is never lower than it was before.
C18_MarkerNeverDecreases ==
    \A call \in {pc, last} :
        (call.op = "check_database" /\ call.arg.type = "bytes"
            /\ call.arg.text = PersistedVersion(call.pre.disk)) =>
            int(PersistedVersion(db.disk)) >= int(PersistedVersion(call.pre.disk))

-----------------------------------------------------------------------------
(* Properties of inserts under an existing primary key, under SpecKeyed *)

\* The call that returned last was given a primary key that had a row.
KeyExisted ==
    /\ pc = Idle
    /\ \/ /\ last.op = "add_order"
          /\ \E r \in last.pre.conn.orders : OrderKey(r) = last.arg.order_id
       \/ /\ last.op = "add_transaction"
          /\ \E r \in last.pre.conn.transactions :
                r.transaction_id = last.arg.transaction_id
       \/ /\ last.op = "add_tick"
          /\ \E r \in last.pre.conn.ticks : OrderKey(r) = last.arg.order_id

\* C15: add_order, add_transaction and add_tick with a primary key that
\* already has a row raise the constraint error of the storage engine and
\* leave the store as it was: the row keeps its values and its reservation
\* or payment rows are neither deleted nor added to.
C15_ExistingKeyRaisesAndKeeps ==
    KeyExisted =>
        /\ last.result = "IntegrityError"
        /\ db = last.pre

\* add_transaction of x1 with another amount and no payment was refused,
\* and the payment of the stored x1 is still there.
C15_Witness ==
    /\ KeyExisted
    /\ last.op = "add_transaction"
    /\ last.arg.payments = <<>>
    /\ \E r \in db.disk.transactions :
          r.transaction_id = "x1" /\ r.asset1_amount # last.arg.asset1_amount
    /\ \E r \in db.disk.payments : r.transaction_id = "x1"

-----------------------------------------------------------------------------
(* The frame of insert_or_update_transaction, under SpecFrame *)

\* C16: insert_or_update_transaction(t) inserts, deletes and modifies no
\* payment row, and on a transaction row that exists it changes no column
\* other than asset1_amount, asset1_transferred, asset2_amount,
\* asset2_transferred and transaction_timestamp.  Rows are those the
\* connection sees before and after the call.
C16_UpsertFrame ==
    Upserted =>
        /\ db.conn.payments = last.pre.conn.payments
        /\ RowBefore # None =>
              /\ RowAfter # None
              /\ RowAfter.transaction_id = RowBefore.transaction_id
              /\ RowAfter.sent_wallet_info = RowBefore.sent_wallet_info

\* A newer update with the other wallet flag and a payment list of its own
\* was applied to a stored transaction that has payments.
C16_Witness ==
    /\ Upserted
    /\ RowBefore # None
    /\ RowBefore.transaction_timestamp < last.arg.timestamp
    /\ RowBefore.sent_wallet_info # last.arg.sent_wallet_info
    /\ Mutable(RowAfter) = MutableOf(last.arg)
    /\ last.arg.payments # <<>>
    /\ {r.payment_id : r \in db.conn.payments} = {"p2"}

-----------------------------------------------------------------------------
(* Properties of PaymentId, under SpecPaymentId *)

Constructed == pc = Idle /\ last.op = "PaymentId"

\* C17: constructing a PaymentId succeeds for the non-empty strings and for
\* no other value; for the empty string and for values that are not strings
\* it raises.
C17_OnlyNonEmptyStrings ==
    Constructed =>
        IF last.arg.type = "str" /\ last.arg.text # ""
        THEN last.result = [payment_id |-> last.arg.text]
        ELSE "raised" \in DOMAIN last.result

-----------------------------------------------------------------------------
(* Last writer wins by time, under SpecSequence *)

\* C19: on a store that had no transaction x1, after any sequence of
\* insert_or_update_transaction calls for x1, in any order and with
\* repetitions, the stored timestamp is the largest timestamp of the
\* sequence, and the stored amounts and transferred amounts are those of a
\* call that carried that timestamp.
C19_LastWriterWinsByTime ==
    (Upserted /\ CallsSoFar # {}) =>
        /\ RowAfter # None
        /\ \A t \in CallsSoFar : t.timestamp <= RowAfter.transaction_timestamp
        /\ \E t \in CallsSoFar : MutableOf(t) = Mutable(RowAfter)
        /\ TransactionRow(db.disk, "x1") = RowAfter

\* The newest update came first and an older one with other amounts last.
C19_Witness ==
    /\ Upserted
    /\ Cardinality(CallsSoFar) >= 3
    /\ last.arg.timestamp < RowAfter.transaction_timestamp
    /\ MutableOf(last.arg) # Mutable(RowAfter)
    /\ RowBefore = RowAfter
    /\ \E t \in CallsSoFar :
          t.timestamp = RowAfter.transaction_timestamp /\ MutableOf(t) # Mutable(RowAfter)

-----------------------------------------------------------------------------
(* Durability of the operations that write, under SpecWrite *)

MutatingOperations ==
    {"add_order", "delete_order", "add_reserved_tick", "delete_reserved_ticks",
     "add_transaction", "insert_or_update_transaction", "delete_transaction",
     "add_payment", "delete_payments", "add_tick", "delete_all_ticks"}

\* C20: when an operation that writes has returned without an error, all
\* of its effects are committed: what is on disk, which is what remains
\* when uncommitted work is discarded, is what the call left.
C20_ReturnedMeansCommitted ==
    (pc = Idle /\ last.op \in MutatingOperations /\ last.result = "ok") =>
        db.disk = db.conn

====
